---- MODULE Spec2Model ----
(***************************************************************************)
(* A model of rylev/triage-tracker (src/src/main.rs, src/src/github.rs).   *)
(*                                                                         *)
(*   Spec        events_for_date / issues_for_date: the snapshot cache     *)
(*               (read_cache, write_cache) around the date-window locator  *)
(*               fetch_for_date, over a finite newest-first paged source.  *)
(*                                                                         *)
(* Dates are day numbers 0..MaxDay, Today = MaxDay.  Unsigned 32-bit page  *)
(* arithmetic is kept as arithmetic modulo UMAX + 1; an overflowing        *)
(* operation either panics (overflow checks on) or wraps (release build).  *)
(***************************************************************************)
EXTENDS Integers, Sequences, FiniteSets, TLC

\* ---------------------------------------------------------------- bounds
\* Days are 0..MaxDay; Today is MaxDay.
MaxDay == 2
\* A page of the remote source holds PageSize items (per_page, 100 in the code).
PageSize == 2
\* The source holds at most MaxPerDay items of one date.
MaxPerDay == 2
\* Issue numbers are 1..MaxNumber.
MaxNumber == 2
\* A fetch for a date returns at most MaxFetched items (Issues::for_date).
MaxFetched == 2
\* Instants are 0..MaxTime, in days.
MaxTime == 2
\* The first-page estimate is computed for dates up to MaxDaysAway days ago.
MaxDaysAway == 60
\* One triage run iterates at most MaxIssues issues.
MaxIssues == 1
\* At most MaxFetches page fetches are followed in one scan.
MaxFetches == 6
\* The largest value of the unsigned page arithmetic (u32::MAX in the code).
UMAX == 255

Dates == 0..MaxDay
Today == MaxDay

VARIABLES
  typ,            \* CacheType / T: "events" or "issues"
  source,         \* the remote collection, newest first
  date,           \* the target date
  start,          \* T::page_for_date(date), the first page fetched
  storage,        \* the blob at cache_path(date, typ)
  pc,             \* position in events_for_date / issues_for_date
  page_number,    \* fetch_for_date: the cursor
  items,          \* fetch_for_date: the accumulated items
  fetch_index,    \* fetch_for_date
  pages_per_day,  \* fetch_for_date: the adaptive estimate
  fetches,        \* number of page fetches issued by this scan
  status,         \* transport status of the last page fetch
  exit,           \* how the scan loop ended: "done", "exhausted" or "none"
  fs_read,        \* read_cache: what tokio::fs::read gave
  result,         \* what the call returned
  \* ---- Issues::for_date (SpecForDate)
  prs,            \* the issue numbers that are pull requests
  remote,         \* per type, the numbers fetch_*_for_date finds for the date
  store,          \* per path, the blob at cache_path(date, type)
  task,           \* per type, the future's position and value
  day,            \* what Issues::for_date returned
  \* ---- TriageCache (SpecCache, SpecTriage)
  internal,       \* TriageCache.internal: issue number -> TriageCacheLine
  now,            \* chrono::Utc::now(), in days
  disk,           \* ./database/triage.json
  last_insert,    \* per issue number: never seen, loaded, or the fact last inserted
  \* ---- handle_triaged / perform_triage_loop (SpecTriage)
  yard,           \* last_active_yard_stick
  tpc,            \* position in handle_triaged / perform_triage_loop
  issue_page,     \* the loop's `page`
  remaining,      \* issues of the fetched page not iterated yet
  handled,        \* issues iterated so far
  issue,          \* the issue of the current (last) iteration
  branch,         \* the arm the iteration took
  untriaged,      \* the untriaged issues collected
  cache_gets,     \* number of cache.get calls
  comment_fetches,\* number of fetch_comment_page calls
  request,        \* the last fetch_comment_page request
  comments,       \* the page of comments the last fetch returned
  loop_result,    \* what perform_triage_loop returned
  flushed,        \* the outcome of cache.flush(), if it was called
  report          \* what handle_triaged printed or returned

locVars == <<typ, source, date, start, storage, pc, page_number, items,
             fetch_index, pages_per_day, fetches, status, exit, fs_read,
             result>>

fdVars == <<prs, remote, store, task, day>>

cacheVars == <<internal, now, disk, last_insert>>

triVars == <<yard, tpc, issue_page, remaining, handled, issue, branch, untriaged,
             cache_gets, comment_fetches, request, comments, loop_result,
             flushed, report>>

vars == <<locVars, fdVars, cacheVars, triVars>>

\* The variables the locator specification leaves alone.
notLoc == <<fdVars, cacheVars, triVars>>
\* The variables the for_date specification leaves alone.
notFd == <<locVars, cacheVars, triVars>>
\* The variables the TriageCache specification leaves alone.
notCache == <<locVars, fdVars, triVars>>
\* The variables the triage specification leaves alone.
notTri == <<locVars, fdVars, last_insert>>

\* ------------------------------------------------------------- helpers
Min(a, b) == IF a <= b THEN a ELSE b

RECURSIVE Concat(_, _)
\* Concat(f, d): f[d] \o f[d-1] \o ... \o f[0]
Concat(f, d) == IF d < 0 THEN <<>> ELSE f[d] \o Concat(f, d - 1)

Panic == 0 - 1

\* u32 arithmetic: the set of outcomes of an operation.  In range there is
\* one; out of range the build decides: a panic or the wrapped value.
SubU32(a, b) == IF a >= b THEN {a - b} ELSE {Panic, (a - b) % (UMAX + 1)}
AddU32(a, b) == IF a + b <= UMAX THEN {a + b} ELSE {Panic, (a + b) % (UMAX + 1)}
MulU32(a, b) == IF a * b <= UMAX THEN {a * b} ELSE {Panic, (a * b) % (UMAX + 1)}
\* `n as u32` of a signed day count
AsU32(n) == n % (UMAX + 1)

\* ---------------------------------------------------------- the items
\* Dated::date
ItemDate(e) == e.date

\* Dated::is_relevant_for_date: an Event of Unknown kind is never relevant.
IsRelevantForDate(e, d) == e.known /\ ItemDate(e) = d

\* Paged::ESTIMATED_PAGES_PER_DAY
EstimatedPagesPerDay(t) == IF t = "events" THEN 4 ELSE 1

\* A page_for_date that multiplies by ESTIMATED_PAGES_PER_DAY for both types
PageForDateUniform(t, days_away) ==
  IF days_away > 1 THEN AsU32(days_away) * EstimatedPagesPerDay(t)
  ELSE IF days_away = 1 THEN 4
  ELSE 0

\* Paged::page_for_date, from days_away = today - date
PageForDate(t, days_away) ==
  IF t = "events"
  THEN IF days_away > 1 THEN AsU32(days_away) * EstimatedPagesPerDay(t)
       ELSE IF days_away = 1 THEN 4
       ELSE 0
  ELSE AsU32(days_away) \div 6

\* ---------------------------------------------------- the remote source
\* The source built from the number of items of each date, newest first;
\* item i is unknown-kind when i = unk (only for events).
MkSource(cnt, unk) ==
  LET dates == Concat([d \in Dates |-> [i \in 1..cnt[d] |-> d]], MaxDay)
  IN  [i \in 1..Len(dates) |-> [id |-> i, date |-> dates[i], known |-> (i # unk)]]

NumPages(src) == (Len(src) + PageSize - 1) \div PageSize

\* github::fetch_page(page, per_page): page p (from 0) of the source; a page
\* past the end is empty.
Page(src, p) ==
  LET lo == p * PageSize + 1
      hi == Min((p + 1) * PageSize, Len(src))
  IN  IF lo > Len(src) THEN <<>> ELSE SubSeq(src, lo, hi)

\* github::fetch: a FORBIDDEN status is the rate-limit error, any other
\* failure is Error::Other.
FetchError(st) == IF st = "forbidden" THEN "rate_limited" ELSE "other"

FailureStatuses == {"forbidden", "server_error", "bad_json"}

\* ------------------------------------------------------ fetch_for_date
Matches(page, d) == {i \in 1..Len(page) : ItemDate(page[i]) = d}

\* page.iter().position(..): 0-based index of the first item dated d
First(page, d) == (CHOOSE i \in Matches(page, d) : \A j \in Matches(page, d) : i <= j) - 1

\* page.iter().rev().position(..): 0-based, counted from the end
Last(page, d) ==
  Len(page) - (CHOOSE i \in Matches(page, d) : \A j \in Matches(page, d) : i >= j)

\* first.zip(last).map(|(f, l)| f..(page_length - 1 - l))
Range(page, d) == [start |-> First(page, d), end |-> Len(page) - 1 - Last(page, d)]

\* page.into_iter().filter(|e| e.is_relevant_for_date(&date))
RelevantOf(page, d) == SelectSeq(page, LAMBDA e : IsRelevantForDate(e, d))

\* A matched branch that stops whenever the run does not start the page
MatchedMoveStopAtEnd(r, page_length, fi) ==
  IF r.start # 0 THEN "break"
  ELSE IF fi = 0 THEN "back"
  ELSE IF r.end # page_length - 1 THEN "break"
  ELSE "next"

\* What the matched branch does after collecting: "break", "back" (one page
\* toward now) or "next" (one page further from now).
MatchedMove(r, page_length, fi) ==
  IF r.start # 0 /\ r.end # page_length - 1 THEN "break"
  ELSE IF r.start = 0 /\ fi = 0 THEN "back"
  ELSE IF r.end # page_length - 1 THEN "break"
  ELSE "next"

\* pages_per_day.checked_add(1).unwrap_or(0)
BumpPagesPerDay(p) == IF p + 1 > UMAX THEN 0 ELSE p + 1

\* The outcomes of the cursor move after a page with no item of the date.
MissMove(page, d, pn, ppd) ==
  LET most_recent == ItemDate(page[1])
      least_recent == ItemDate(page[Len(page)])
  IN  IF least_recent > d
      THEN LET diff == AsU32(least_recent - d)
           IN  UNION {IF pages = Panic THEN {Panic} ELSE AddU32(pn, pages)
                        : pages \in MulU32(diff, ppd)}
      ELSE LET diff == AsU32(d - most_recent)
           IN  UNION {IF pages = Panic THEN {Panic}
                      ELSE IF pn >= pages THEN {pn - pages}   \* checked_sub
                      ELSE SubU32(pn, 1)                      \* unwrap_or_else
                        : pages \in MulU32(diff, ppd)}

\* ------------------------------------------------- the snapshot cache
Missing == [kind |-> "missing", items |-> <<>>]
Corrupt == [kind |-> "corrupt", items |-> <<>>]
Unreadable == [kind |-> "unreadable", items |-> <<>>]
Valid(its) == [kind |-> "valid", items |-> its]

NoResult == [kind |-> "none", items |-> <<>>]
Ok(its) == [kind |-> "ok", items |-> its]
Err(e) == [kind |-> e, items |-> <<>>]

\* The items a correct scan returns: the relevant items of the date, in order.
Reference(src, d) == RelevantOf(src, d)

\* tokio::fs::read(&path) and serde_json::from_slice on the bytes
FsRead(blob) ==
  IF blob.kind = "missing" THEN "not_found"
  ELSE IF blob.kind = "unreadable" THEN "io_error"
  ELSE IF blob.kind = "valid" THEN "parsed"
  ELSE "unparseable"

\* read_cache with the parse error returned by `?` instead of recovered
ReadCacheResultPropagating(blob) ==
  IF blob.kind = "missing" THEN [kind |-> "miss", items |-> <<>>]
  ELSE IF blob.kind = "valid" THEN [kind |-> "hit", items |-> blob.items]
  ELSE [kind |-> "other", items |-> <<>>]

\* read_cache that reports every blob it can read as a miss
ReadCacheResultNeverHit(blob) ==
  IF blob.kind = "unreadable" THEN [kind |-> "other", items |-> <<>>]
  ELSE [kind |-> "miss", items |-> <<>>]

\* read_cache: what it returns for a blob ...
ReadCacheResult(blob) ==
  IF blob.kind = "missing" THEN [kind |-> "miss", items |-> <<>>]
  ELSE IF blob.kind = "unreadable" THEN [kind |-> "other", items |-> <<>>]
  ELSE IF blob.kind = "valid" THEN [kind |-> "hit", items |-> blob.items]
  ELSE [kind |-> "miss", items |-> <<>>]

\* ... and what it leaves in storage: an unparseable blob is removed.
ReadCacheStorage(blob) == IF blob.kind = "corrupt" THEN Missing ELSE blob

\* events_for_date / issues_for_date, up to the first page fetch
ReadCache ==
  /\ UNCHANGED notLoc
  /\ pc = "read"
  /\ fs_read' = FsRead(storage)
  /\ storage' = ReadCacheStorage(storage)
  /\ LET r == ReadCacheResult(storage)
     IN  IF r.kind = "hit" THEN pc' = "returned" /\ result' = Ok(r.items)
         ELSE IF r.kind = "miss" THEN pc' = "fetch" /\ result' = result
         ELSE pc' = "failed" /\ result' = Err(r.kind)
  /\ UNCHANGED <<typ, source, date, start, page_number, items, fetch_index,
                 pages_per_day, fetches, status, exit>>

\* A failed page fetch that commits the items collected so far
AbortScanCommitting(st) ==
  /\ pc' = "failed"
  /\ result' = Err(FetchError(st))
  /\ storage' = Valid(items)

\* What a failed page fetch does to the call: the error is returned by `?`
\* through fetch_for_date and events_for_date; write_cache is not reached.
AbortScan(st) ==
  /\ pc' = "failed"
  /\ result' = Err(FetchError(st))
  /\ storage' = storage

\* fetch(page_number).await? fails
FetchFails ==
  /\ UNCHANGED notLoc
  /\ pc = "fetch" /\ fetches < MaxFetches
  /\ \E st \in FailureStatuses :
       /\ status' = st
       /\ AbortScan(st)
  /\ fetches' = fetches + 1
  /\ UNCHANGED <<typ, source, date, start, page_number, items, fetch_index,
                 pages_per_day, exit, fs_read>>

\* A break on the empty page that drops the items collected
BreakOnEmptyDropping == pc' = "write" /\ exit' = "exhausted" /\ items' = <<>>
\* `if page.is_empty() { break; }`: the loop ends with the items collected
BreakOnEmpty == pc' = "write" /\ exit' = "exhausted" /\ items' = items

\* The page is empty: break
FetchEmpty ==
  /\ UNCHANGED notLoc
  /\ pc = "fetch" /\ fetches < MaxFetches
  /\ Page(source, page_number) = <<>>
  /\ status' = "ok"
  /\ fetches' = fetches + 1
  /\ BreakOnEmpty
  /\ UNCHANGED <<typ, source, date, start, storage, page_number,
                 fetch_index, pages_per_day, fs_read, result>>

\* The cursor after a move whose outcome is o; a panic ends the process.
MoveTo(o) ==
  IF o = Panic
  THEN pc' = "panic" /\ result' = Err("panic") /\ page_number' = page_number
  ELSE pc' = "fetch" /\ result' = result /\ page_number' = o

\* The page holds items of the date
FetchMatch ==
  /\ UNCHANGED notLoc
  /\ pc = "fetch" /\ fetches < MaxFetches
  /\ LET page == Page(source, page_number)
     IN  /\ page # <<>>
         /\ Matches(page, date) # {}
         /\ items' = items \o RelevantOf(page, date)
         /\ LET move == MatchedMove(Range(page, date), Len(page), fetch_index)
            IN  IF move = "break"
                THEN /\ pc' = "write" /\ exit' = "done"
                     /\ UNCHANGED <<page_number, fetch_index, result>>
                ELSE IF move = "back"
                THEN /\ \E o \in SubU32(page_number, 1) : MoveTo(o)
                     /\ UNCHANGED <<fetch_index, exit>>
                ELSE /\ \E o \in AddU32(page_number, 1) : MoveTo(o)
                     /\ fetch_index' = fetch_index + 1
                     /\ exit' = exit
  /\ status' = "ok"
  /\ fetches' = fetches + 1
  /\ UNCHANGED <<typ, source, date, start, storage, pages_per_day, fs_read>>

\* The page holds no item of the date
FetchMiss ==
  /\ UNCHANGED notLoc
  /\ pc = "fetch" /\ fetches < MaxFetches
  /\ LET page == Page(source, page_number)
     IN  /\ page # <<>>
         /\ Matches(page, date) = {}
         /\ \E o \in MissMove(page, date, page_number, pages_per_day) : MoveTo(o)
  /\ pages_per_day' = IF pc' = "panic" THEN pages_per_day
                      ELSE BumpPagesPerDay(pages_per_day)
  /\ status' = "ok"
  /\ fetches' = fetches + 1
  /\ UNCHANGED <<typ, source, date, start, storage, items, fetch_index, exit,
                 fs_read>>

\* write_cache after the scan; its failure is dropped (`let _ =`), the items
\* are returned either way.
WriteCache ==
  /\ UNCHANGED notLoc
  /\ pc = "write"
  /\ storage' \in {Valid(items), storage}
  /\ result' = Ok(items)
  /\ pc' = "returned"
  /\ UNCHANGED <<typ, source, date, start, page_number, items, fetch_index,
                 pages_per_day, fetches, status, exit, fs_read>>

\* ------------------------------------------------------- specification
StartPages(t, d, src) == (0..NumPages(src)) \cup {PageForDate(t, Today - d)}

\* The for_date variables while the specification does not use them.
FdIdle ==
  /\ prs = {}
  /\ remote = <<>>
  /\ store = <<>>
  /\ task = <<>>
  /\ day = NoResult

\* The TriageCache variables while the specification does not use them.
CacheIdle ==
  /\ internal = <<>>
  /\ now = 0
  /\ disk = <<>>
  /\ last_insert = <<>>

\* The triage variables while the specification does not use them.
TriIdle ==
  /\ yard = 0 /\ tpc = "idle" /\ issue_page = 0 /\ remaining = 0 /\ handled = 0
  /\ issue = <<>> /\ branch = "none" /\ untriaged = <<>> /\ cache_gets = 0
  /\ comment_fetches = 0 /\ request = <<>> /\ comments = <<>>
  /\ loop_result = "none" /\ flushed = "none"
  /\ report = <<>>

Init ==
  /\ FdIdle
  /\ CacheIdle
  /\ TriIdle
  /\ typ \in {"events", "issues"}
  /\ \E cnt \in [Dates -> 0..MaxPerDay] :
       \E unk \in 0..(IF typ = "events" THEN 1 ELSE 0) :
         source = MkSource(cnt, unk)
  /\ date \in Dates
  /\ start \in StartPages(typ, date, source)
  /\ storage \in {Missing, Corrupt, Unreadable, Valid(Reference(source, date))}
  /\ pc = "read"
  /\ page_number = start
  /\ items = <<>>
  /\ fetch_index = 0
  /\ pages_per_day = EstimatedPagesPerDay(typ)
  /\ fetches = 0
  /\ status = "none"
  /\ exit = "none"
  /\ fs_read = "none"
  /\ result = NoResult

Next == ReadCache \/ FetchFails \/ FetchEmpty \/ FetchMatch \/ FetchMiss \/ WriteCache

Spec == Init /\ [][Next]_vars

\* The scan keeps running while it can: every await of the call returns.
SpecLive == Spec /\ WF_vars(Next)

\* ==================================================== Issues::for_date
\* SpecForDate: the two futures of tokio::join!, events_for_date(date) and
\* issues_for_date(date), step by step at their awaits, and the merge.  What
\* fetch_events_for_date / fetch_issues_for_date return for the date is an
\* input: any list of at most MaxFetched items of the date.
CacheTypes == {"events", "issues"}

\* A cache_path that leaves the type out of the file name
CachePathOfDate(t) == <<"database", "date">>
\* cache_path(date, cache_type): "database/{date}-{cache_type}.json", for
\* the one date of the call
CachePath(t) == <<"database", "date", t>>

\* The snapshot files of the date.
Paths == {CachePath(t) : t \in CacheTypes}

\* The type a snapshot file belongs to.
TypeAt(path) == CHOOSE t \in CacheTypes : CachePath(t) = path

\* The lists of issue numbers a fetch may return.
NumberLists == UNION {[1..n -> 1..MaxNumber] : n \in 0..MaxFetched}

\* Issue / Event as fetched: the number of the issue (of the event's issue)
\* and whether it carries a pull_request.
Fetched(nums, pulls) ==
  [i \in 1..Len(nums) |-> [number |-> nums[i], pull_request |-> nums[i] \in pulls]]

\* Issue::is_pull_request / Event::is_pull_request
IsPullRequest(i) == i.pull_request

\* IssueOrEvent::Event(e) / IssueOrEvent::Issue(i)
Wrap(seq, variant) ==
  [i \in 1..Len(seq) |->
     [number |-> seq[i].number, pull_request |-> seq[i].pull_request,
      variant |-> variant]]

\* items.sort_by(number): a stable sort
InsertSorted(s, x) ==
  LET k == Cardinality({i \in 1..Len(s) : s[i].number <= x.number})
  IN  SubSeq(s, 1, k) \o <<x>> \o SubSeq(s, k + 1, Len(s))

RECURSIVE SortByNumber(_)
SortByNumber(s) ==
  IF s = <<>> THEN <<>>
  ELSE InsertSorted(SortByNumber(SubSeq(s, 1, Len(s) - 1)), s[Len(s)])

\* items.dedup_by(same number): drops an item equal to the one kept before it
RECURSIVE DedupByNumber(_)
DedupByNumber(s) ==
  IF Len(s) <= 1 THEN s
  ELSE LET d == DedupByNumber(SubSeq(s, 1, Len(s) - 1))
       IN  IF d[Len(d)].number = s[Len(s)].number THEN d ELSE Append(d, s[Len(s)])

\* for_date without the dedup_by
ForDateItemsNoDedup(events, issues) ==
  SortByNumber(
    Wrap(SelectSeq(events, LAMBDA i : ~IsPullRequest(i)), "Event")
      \o Wrap(SelectSeq(issues, LAMBDA i : ~IsPullRequest(i)), "Issue"))

\* Issues::for_date: the items built from the two fetched lists
ForDateItems(events, issues) ==
  DedupByNumber(SortByNumber(
    Wrap(SelectSeq(events, LAMBDA i : ~IsPullRequest(i)), "Event")
      \o Wrap(SelectSeq(issues, LAMBDA i : ~IsPullRequest(i)), "Issue")))

Future(p, v, e, w) == [pc |-> p, value |-> v, err |-> e, wrote |-> w]

\* read_cache(&date, t).await?
FdReadCache(t) ==
  /\ UNCHANGED notFd
  /\ task[t].pc = "read"
  /\ store' = [store EXCEPT ![CachePath(t)] = ReadCacheStorage(store[CachePath(t)])]
  /\ LET r == ReadCacheResult(store[CachePath(t)])
     IN  task' = [task EXCEPT ![t] =
                    IF r.kind = "hit" THEN Future("ok", r.items, "none", FALSE)
                    ELSE IF r.kind = "miss" THEN Future("fetch", <<>>, "none", FALSE)
                    ELSE Future("err", <<>>, r.kind, FALSE)]
  /\ UNCHANGED <<prs, remote, day>>

\* fetch_events_for_date(date).await? / fetch_issues_for_date(date).await?
FdFetch(t) ==
  /\ UNCHANGED notFd
  /\ task[t].pc = "fetch"
  /\ \/ task' = [task EXCEPT ![t] =
                   Future("write", Fetched(remote[t], prs), "none", FALSE)]
     \/ \E st \in FailureStatuses :
          task' = [task EXCEPT ![t] = Future("err", <<>>, FetchError(st), FALSE)]
  /\ UNCHANGED <<prs, remote, store, day>>

\* let _ = write_cache(&date, &events, t).await
FdWriteCache(t) ==
  /\ UNCHANGED notFd
  /\ task[t].pc = "write"
  /\ \/ /\ store' = [store EXCEPT ![CachePath(t)] = Valid(task[t].value)]
        /\ task' = [task EXCEPT ![t] = Future("ok", task[t].value, "none", TRUE)]
     \/ /\ store' = store
        /\ task' = [task EXCEPT ![t] = Future("ok", task[t].value, "none", FALSE)]
  /\ UNCHANGED <<prs, remote, day>>

\* tokio::join! has both values; events?, issues?, then the merge
FdJoin ==
  /\ UNCHANGED notFd
  /\ day = NoResult
  /\ \A t \in CacheTypes : task[t].pc \in {"ok", "err"}
  /\ day' = IF task["events"].pc = "err" THEN Err(task["events"].err)
            ELSE IF task["issues"].pc = "err" THEN Err(task["issues"].err)
            ELSE Ok(ForDateItems(task["events"].value, task["issues"].value))
  /\ UNCHANGED <<prs, remote, store, task>>

\* The locator variables while the specification does not use them.
LocIdle ==
  /\ typ = "none" /\ source = <<>> /\ date = 0 /\ start = 0
  /\ storage = Missing /\ pc = "idle" /\ page_number = 0 /\ items = <<>>
  /\ fetch_index = 0 /\ pages_per_day = 0 /\ fetches = 0 /\ status = "none"
  /\ exit = "none" /\ fs_read = "none" /\ result = NoResult

InitForDate ==
  /\ LocIdle
  /\ CacheIdle
  /\ TriIdle
  /\ prs \in SUBSET (1..MaxNumber)
  /\ remote \in [CacheTypes -> NumberLists]
  /\ store \in [Paths -> {Missing, Corrupt, Unreadable}]
               \cup {[path \in Paths |-> Valid(Fetched(remote[TypeAt(path)], prs))]}
  /\ task = [t \in CacheTypes |-> Future("read", <<>>, "none", FALSE)]
  /\ day = NoResult

NextForDate ==
  \/ \E t \in CacheTypes : FdReadCache(t)
  \/ \E t \in CacheTypes : FdFetch(t)
  \/ \E t \in CacheTypes : FdWriteCache(t)
  \/ FdJoin

SpecForDate == InitForDate /\ [][NextForDate]_vars

\* ========================================================= TriageCache
\* SpecCache: the TriageCache after from_disk, under insert and the
\* passing of time; get is the operator Get.
Numbers == 1..MaxNumber
Times == 0..MaxTime

\* enum Activity
NoActivitySince(d) == [kind |-> "NoActivitySince", date |-> d]
LastCommented(d) == [kind |-> "LastCommented", date |-> d]
Activities == {NoActivitySince(d) : d \in Dates} \cup {LastCommented(d) : d \in Dates}

\* struct TriageCacheLine
CacheLine(a, t) == [activity |-> a, last_checked |-> t]

\* enum CacheResult
Fresh(a) == [kind |-> "Fresh", activity |-> a]
Stale(a) == [kind |-> "Stale", activity |-> a]
NotFound == [kind |-> "NotFound"]

\* Option<chrono::Duration>
NoTtl == [some |-> FALSE]
Ttl(d) == [some |-> TRUE, days |-> d]

\* TriageCache::get with `last_checked <= ago`
GetInclusive(m, issue_number, ttl, t) ==
  IF issue_number \notin DOMAIN m THEN NotFound
  ELSE LET l == m[issue_number]
       IN  IF ttl.some /\ l.last_checked <= t - ttl.days
           THEN Stale(l.activity)
           ELSE Fresh(l.activity)

\* TriageCache::get, at the instant t
Get(m, issue_number, ttl, t) ==
  IF issue_number \notin DOMAIN m THEN NotFound
  ELSE LET l == m[issue_number]
       IN  IF ttl.some /\ l.last_checked < t - ttl.days
           THEN Stale(l.activity)
           ELSE Fresh(l.activity)

\* An insert that keeps the line already there
InsertIfAbsent(m, issue_number, activity, t) ==
  [n \in DOMAIN m \cup {issue_number} |->
     IF n \in DOMAIN m THEN m[n] ELSE CacheLine(activity, t)]

\* An insert that keeps no other line
InsertAlone(m, issue_number, activity, t) ==
  [n \in {issue_number} |-> CacheLine(activity, t)]

\* TriageCache::insert, at the instant t
Insert(m, issue_number, activity, t) ==
  [n \in DOMAIN m \cup {issue_number} |->
     IF n = issue_number THEN CacheLine(activity, t) ELSE m[n]]

EmptyMap == <<>>

\* ./database/triage.json: absent, not a map, or a map
NoFile == [kind |-> "missing", map |-> EmptyMap]
BadFile == [kind |-> "corrupt", map |-> EmptyMap]
File(m) == [kind |-> "valid", map |-> m]

\* TriageCache::from_disk: the map loaded ...
FromDisk(blob) == IF blob.kind = "valid" THEN blob.map ELSE EmptyMap

\* ... and the file it leaves: "{}" is written over a missing or bad file
FromDiskFile(blob) == IF blob.kind = "valid" THEN blob ELSE File(EmptyMap)

Never == [tag |-> "never"]
Loaded == [tag |-> "loaded"]
Inserted(a) == [tag |-> "inserted", activity |-> a]

\* cache.insert(issue_number, activity)
CacheInsert(issue_number, activity) ==
  /\ UNCHANGED notCache
  /\ internal' = Insert(internal, issue_number, activity, now)
  /\ last_insert' = [last_insert EXCEPT ![issue_number] = Inserted(activity)]
  /\ UNCHANGED <<now, disk>>

\* A day passes.
Tick ==
  /\ UNCHANGED notCache
  /\ now < MaxTime
  /\ now' = now + 1
  /\ UNCHANGED <<internal, disk, last_insert>>

\* The facts SpecCache loads and inserts: both variants, with the first and
\* the last date (get and insert do not read the date of a fact).
CacheFacts ==
  {NoActivitySince(0), LastCommented(0), NoActivitySince(MaxDay), LastCommented(MaxDay)}

\* The maps a triage.json written by the instant t may hold.
CacheMaps(t) ==
  UNION {[S -> {CacheLine(a, c) : a \in CacheFacts, c \in 0..t}] : S \in SUBSET Numbers}

\* The file is not read again after from_disk: SpecCache leaves it out.
InitCache ==
  /\ LocIdle
  /\ FdIdle
  /\ TriIdle
  /\ now \in Times
  /\ \E blob \in {NoFile, BadFile} \cup {File(m) : m \in CacheMaps(now)} :
       internal = FromDisk(blob)
  /\ disk = <<>>
  /\ last_insert = [n \in Numbers |-> IF n \in DOMAIN internal THEN Loaded ELSE Never]

NextCache ==
  \/ \E n \in Numbers : \E a \in CacheFacts : CacheInsert(n, a)
  \/ Tick

SpecCache == InitCache /\ [][NextCache]_vars

\* ====================================================== handle_triaged
\* SpecTriage: one run of handle_triaged, after from_disk: the loop of
\* perform_triage_loop step by step at its awaits, then the flush and the
\* report.  The clock does not advance within a run.
\* chrono::Duration::days(1), the TTL of the loop's cache lookups
OneDay == 1
\* per_page of fetch_comment_page and the bound of `comments.len() < 100`
PerPage == 100

\* The days an issue or a comment is dated: the first and the last one,
\* which every yardstick of Dates is before, on or after.
EdgeDays == {0, MaxDay}

\* The pages of comments the remote may return, oldest comment first
\* (no sort is requested): their length and the dates of the first and of
\* the last comment.
CommentPages ==
  {[len |-> 0, first |-> 0, last |-> 0]}
    \cup {[len |-> 1, first |-> d, last |-> d] : d \in EdgeDays}
    \cup {[len |-> n, first |-> p[1], last |-> p[2]] :
            n \in {PerPage - 1, PerPage},
            p \in {q \in EdgeDays \X EdgeDays : q[1] <= q[2]}}

\* `comments.len() <= 100`
UpToAPage(cs) == cs.len <= PerPage
\* `comments.len() < 100`
FewerThanAPage(cs) == cs.len < PerPage

\* comments.first().unwrap().created_at.naive_local().date()
FirstCommentDate(cs) == cs.first
\* comments.last().unwrap().created_at.naive_local().date()
LastCommentDate(cs) == cs.last

\* The issues a page may list: without comments, or with comments (the
\* creation day is then never read).
IssueValues ==
  {[number |-> n, comments |-> 0, created_at |-> d] : n \in Numbers, d \in EdgeDays}
    \cup {[number |-> n, comments |-> 1, created_at |-> 0] : n \in Numbers}

\* `created_at <= last_active_yard_stick`
CreatedBeforeOrOn(created_at, y) == created_at <= y
\* `created_at < last_active_yard_stick`
CreatedBefore(created_at, y) == created_at < y

\* `last_comment <= last_active_yard_stick`
LastCommentBeforeOrOn(last_comment, y) == last_comment <= y
\* `last_comment < last_active_yard_stick`
LastCommentBefore(last_comment, y) == last_comment < y

\* `no_activity_since < last_active_yard_stick`
NoActivityBefore(no_activity_since, y) == no_activity_since < y
\* `no_activity_since <= last_active_yard_stick`
NoActivityUpTo(no_activity_since, y) == no_activity_since <= y

\* `last_commented >= last_active_yard_stick`
StaleConclusiveFromYard(last_commented, y) == last_commented >= y
\* `last_commented > last_active_yard_stick`, the guard of the Stale arm
StaleStillConclusive(last_commented, y) == last_commented > y

Arm(name, u, f) == [arm |-> name, untriaged |-> u, fetch |-> f]

\* The match on cache.get(..): the arm taken, whether the issue is pushed
\* to untriaged, and whether the comments are fetched.
MatchArm(r, y) ==
  IF r.kind = "Fresh" /\ r.activity.kind = "LastCommented"
  THEN Arm("fresh_last_commented", LastCommentBefore(r.activity.date, y), FALSE)
  ELSE IF r.kind = "Fresh" /\ r.activity.kind = "NoActivitySince"
  THEN IF NoActivityUpTo(r.activity.date, y)
       THEN Arm("fresh_no_activity", TRUE, FALSE)
       ELSE Arm("fresh_no_visibility", FALSE, TRUE)
  ELSE IF r.kind = "Stale" /\ r.activity.kind = "LastCommented"
          /\ StaleStillConclusive(r.activity.date, y)
  THEN Arm("stale_last_commented", FALSE, FALSE)
  ELSE Arm("not_found", FALSE, TRUE)

\* The end of an iteration of `for issue in issues`: the next issue of the
\* issue_page, or the next page.
Continue ==
  /\ remaining' = remaining - 1
  /\ IF remaining = 1
     THEN tpc' = "fetch_page" /\ issue_page' = issue_page + 1
     ELSE tpc' = "next_issue" /\ issue_page' = issue_page

\* perform_triage_loop returns r
LoopReturns(r) ==
  /\ tpc' = "loop_returned"
  /\ loop_result' = r

\* github::fetch_issue_page(issue_page, ..).await?
TriFetchIssuePage ==
  /\ UNCHANGED notTri
  /\ tpc = "fetch_page"
  /\ \/ /\ \E st \in FailureStatuses : LoopReturns(FetchError(st))
        /\ UNCHANGED remaining
     \/ /\ LoopReturns("ok")                       \* issues.is_empty(): break
        /\ UNCHANGED remaining
     \/ /\ handled < MaxIssues
        /\ \E n \in 1..(MaxIssues - handled) : remaining' = n
        /\ tpc' = "next_issue"
        /\ UNCHANGED loop_result
  /\ UNCHANGED <<internal, now, disk, yard, issue_page, handled, issue, branch,
                 untriaged, cache_gets, comment_fetches, request, comments, flushed,
                 report>>

\* One iteration of `for issue in issues`, up to its `continue` or to the
\* await of fetch_comment_page
TriHandleIssue(i) ==
  /\ UNCHANGED notTri
  /\ tpc = "next_issue"
  /\ issue' = i
  /\ handled' = handled + 1
  /\ IF i.comments = 0
     THEN /\ branch' = "no_comments"
          /\ untriaged' = IF CreatedBefore(i.created_at, yard)
                          THEN Append(untriaged, i) ELSE untriaged
          /\ Continue
          /\ UNCHANGED cache_gets
     ELSE LET m == MatchArm(Get(internal, i.number, Ttl(OneDay), now), yard)
          IN  /\ cache_gets' = cache_gets + 1
              /\ branch' = m.arm
              /\ untriaged' = IF m.untriaged THEN Append(untriaged, i) ELSE untriaged
              /\ IF m.fetch
                 THEN tpc' = "fetch_comments" /\ UNCHANGED <<remaining, issue_page>>
                 ELSE Continue
  /\ UNCHANGED <<internal, now, disk, yard, comment_fetches, request, comments,
                 loop_result, flushed, report>>

\* github::fetch_comment_page(issue.number, 1, 100, Some(yard_stick)).await?
\* and what follows it in the iteration
TriFetchComments ==
  /\ UNCHANGED notTri
  /\ tpc = "fetch_comments"
  /\ comment_fetches' = comment_fetches + 1
  /\ request' = [issue_number |-> issue.number, page |-> 1, per_page |-> PerPage,
                 since |-> yard]
  /\ \/ /\ \E st \in FailureStatuses : LoopReturns(FetchError(st))
        /\ UNCHANGED <<internal, untriaged, remaining, issue_page>>
        /\ UNCHANGED comments
     \/ \E cs \in CommentPages :
          /\ comments' = cs
          /\ IF cs.len = 0
             THEN /\ internal' = Insert(internal, issue.number, NoActivitySince(yard), now)
                  /\ untriaged' = Append(untriaged, issue)
                  /\ Continue
                  /\ UNCHANGED loop_result
             ELSE IF FewerThanAPage(cs)
             THEN /\ internal' = Insert(internal, issue.number,
                                        LastCommented(LastCommentDate(cs)), now)
                  /\ Continue
                  /\ UNCHANGED <<untriaged, loop_result>>
             ELSE /\ tpc' = "panic"                   \* todo!()
                  /\ UNCHANGED <<internal, untriaged, remaining, issue_page, loop_result>>
  /\ UNCHANGED <<now, disk, yard, handled, issue, branch, cache_gets, flushed,
                 report>>

\* TriageCache::flush: the file after the write, which may fail (the
\* failure is only logged)
Flush(m, file) == {[outcome |-> "written", disk |-> File(m)],
                   [outcome |-> "write_failed", disk |-> file]}

\* `r @ Ok(())` alone
FlushedOnOk(r) == r = "ok"
\* `r @ Ok(()) | r @ Err(Error::RateLimited)`: the results handle_triaged
\* flushes the cache on
FlushedOn(r) == r \in {"ok", "rate_limited"}

\* handle_triaged after the loop: the flush and the report, or the error
\* returned without a flush
TriFinish ==
  /\ UNCHANGED notTri
  /\ tpc = "loop_returned"
  /\ IF FlushedOn(loop_result)
     THEN /\ \E f \in Flush(internal, disk) : flushed' = f.outcome /\ disk' = f.disk
          /\ report' = [kind |-> "printed", warning |-> (loop_result = "rate_limited"),
                        untriaged |-> untriaged]
          /\ tpc' = "done"
     ELSE /\ disk' = disk
          /\ flushed' = "none"
          /\ report' = [kind |-> "error", warning |-> FALSE, untriaged |-> <<>>]
          /\ tpc' = "failed"
  /\ UNCHANGED <<internal, now, yard, issue_page, remaining, handled, issue, branch,
                 untriaged, cache_gets, comment_fetches, request, comments,
                 loop_result>>

\* The instants of an earlier check: just now, exactly one TTL ago, and
\* longer ago than the TTL.
Checked(t) == {t, t - OneDay, t - OneDay - 1}

\* The files the run may find: none, a bad one, or the map of one issue.
TriageFiles(t) ==
  {NoFile, BadFile, File(EmptyMap)}
    \cup {File([x \in {n} |-> CacheLine(a, c)]) :
            n \in Numbers, a \in CacheFacts, c \in Checked(t)}

InitTriage ==
  /\ LocIdle
  /\ FdIdle
  /\ last_insert = <<>>
  /\ now = MaxTime
  /\ \E blob \in TriageFiles(now) :
       /\ internal = FromDisk(blob)
       /\ disk \in {FromDiskFile(blob), blob}   \* the write of "{}" may fail
  /\ yard \in Dates
  /\ tpc = "fetch_page"
  /\ issue_page = 1
  /\ remaining = 0
  /\ handled = 0
  /\ issue = <<>>
  /\ branch = "none"
  /\ untriaged = <<>>
  /\ cache_gets = 0
  /\ comment_fetches = 0
  /\ request = <<>>
  /\ comments = <<>>
  /\ loop_result = "none" /\ flushed = "none"
  /\ report = <<>>

NextTriage ==
  \/ TriFetchIssuePage
  \/ \E i \in IssueValues : TriHandleIssue(i)
  \/ TriFetchComments
  \/ TriFinish

SpecTriage == InitTriage /\ [][NextTriage]_vars

\* ====================================================== page_for_date
\* SpecPage: the start of fetch_for_date for a date of the last MaxDaysAway
\* days: the first page is T::page_for_date(date) and the estimate starts at
\* T::ESTIMATED_PAGES_PER_DAY.
PastDates == (Today - MaxDaysAway)..Today

\* let mut page_number = T::page_for_date(date.clone()); ..
\* let mut pages_per_day = T::ESTIMATED_PAGES_PER_DAY;
StartScan ==
  /\ UNCHANGED notLoc
  /\ pc = "start"
  /\ start' = PageForDate(typ, Today - date)
  /\ page_number' = start'
  /\ pages_per_day' = EstimatedPagesPerDay(typ)
  /\ pc' = "fetch"
  /\ UNCHANGED <<typ, source, date, storage, items, fetch_index, fetches, status,
                 exit, fs_read, result>>

InitPage ==
  /\ FdIdle
  /\ CacheIdle
  /\ TriIdle
  /\ typ \in {"events", "issues"}
  /\ date \in PastDates
  /\ pc = "start"
  /\ source = <<>> /\ start = 0 /\ storage = Missing /\ page_number = 0
  /\ items = <<>> /\ fetch_index = 0 /\ pages_per_day = 0 /\ fetches = 0
  /\ status = "none" /\ exit = "none" /\ fs_read = "none" /\ result = NoResult

NextPage == StartScan

SpecPage == InitPage /\ [][NextPage]_vars

\* ================================================= sequential invocations
\* SpecCalls: events_for_date / issues_for_date called again and again for
\* one (date, type) key, one call after the other has ended.  No snapshot
\* exists before the first call.
CallAgain ==
  /\ UNCHANGED notLoc
  /\ pc \in {"returned", "failed", "panic"}
  /\ pc' = "read"
  /\ page_number' = start
  /\ items' = <<>>
  /\ fetch_index' = 0
  /\ pages_per_day' = EstimatedPagesPerDay(typ)
  /\ fetches' = 0
  /\ status' = "none"
  /\ exit' = "none"
  /\ fs_read' = "none"
  /\ result' = NoResult
  /\ UNCHANGED <<typ, source, date, start, storage>>

InitCalls == Init /\ storage.kind # "valid"

NextCalls == Next \/ CallAgain

SpecCalls == InitCalls /\ [][NextCalls]_vars

\* ================================================ the adaptive estimate
\* SpecBump: the last statement of the branch for a page with no item of
\* the date, `pages_per_day = pages_per_day.checked_add(1).unwrap_or(0)`,
\* for every value the estimate can have from its start to the largest u32.
BumpEstimate ==
  /\ UNCHANGED notLoc
  /\ pc = "miss"
  /\ pages_per_day' = BumpPagesPerDay(pages_per_day)
  /\ pc' = "fetch"
  /\ UNCHANGED <<typ, source, date, start, storage, page_number, items,
                 fetch_index, fetches, status, exit, fs_read, result>>

InitBump ==
  /\ FdIdle
  /\ CacheIdle
  /\ TriIdle
  /\ typ \in {"events", "issues"}
  /\ pages_per_day \in EstimatedPagesPerDay(typ)..UMAX
  /\ pc = "miss"
  /\ source = <<>> /\ date = 0 /\ start = 0 /\ storage = Missing
  /\ page_number = 0 /\ items = <<>> /\ fetch_index = 0 /\ fetches = 0
  /\ status = "none" /\ exit = "none" /\ fs_read = "none" /\ result = NoResult

NextBump == BumpEstimate

SpecBump == InitBump /\ [][NextBump]_vars

\* =============================================================== claims
Rng(s) == {s[i] : i \in 1..Len(s)}

\* The target date lies within the dates of the source.
InRange ==
  /\ Len(source) > 0
  /\ ItemDate(source[Len(source)]) <= date
  /\ date <= ItemDate(source[1])

\* C1: for a newest-first source and a target date within its range, the
\* scan, started at any page of the source, returns exactly the items of
\* the source of that date.
C1_ScanReturnsTheDay ==
  (pc = "write" /\ InRange /\ start < NumPages(source))
    => Rng(items) = Rng(Reference(source, date))

\* The source is one non-empty page, all of today, and the scan starts at
\* page 0 for today.
TodaySinglePage ==
  /\ date = Today
  /\ start = 0
  /\ Len(source) \in 1..PageSize
  /\ \A i \in 1..Len(source) : ItemDate(source[i]) = Today

\* C2: for today and a single page of today's items, the scan from page 0
\* fetches that page once, returns all its items and ends Done: no retry
\* step, no underflow of the page index.
C2_TodaySinglePageDone ==
  (TodaySinglePage /\ status \notin FailureStatuses)
    => /\ pc # "panic"
       /\ fetches <= 1
       /\ page_number = 0
       /\ pc = "write" => (exit = "done" /\ items = Reference(source, date))

\* C3: a failed page fetch ends the call at once with the error of the
\* failure (the rate-limit error for a FORBIDDEN status), and nothing is
\* written to the snapshot cache, whatever the scan had collected.
C3_FetchErrorAbortsWithoutSnapshot ==
  status \in FailureStatuses
    => /\ pc = "failed"
       /\ result.kind = (IF status = "forbidden" THEN "rate_limited" ELSE "other")
       /\ storage = Missing

\* C3's case: the second page of a scan is rate limited after the first
\* page contributed items.
C3_Witness ==
  /\ status = "forbidden" /\ fetches = 2 /\ items # <<>>
  /\ result.kind = "rate_limited"

Clean(its) ==
  /\ \A i, j \in 1..Len(its) : its[i].number = its[j].number => i = j
  /\ \A i \in 1..Len(its) : ~its[i].pull_request

\* C5 as stated: the list built by for_date and every snapshot written for
\* a (date, type) key hold no two items of one issue and no pull request.
C5_EverySnapshotClean ==
  /\ day.kind = "ok" => Clean(day.items)
  /\ \A t \in DOMAIN task : task[t].wrote => Clean(store[CachePath(t)].items)

\* C5, amended: the list built by Issues::for_date holds no two items of
\* one issue number and no pull request, whatever the two fetches returned.
C5_ForDateItemsClean ==
  day.kind = "ok" => Clean(day.items)

\* C5's case: for_date returned after fetches that held a pull request and
\* an issue number present in both lists.
C5_Witness ==
  /\ day.kind = "ok" /\ day.items # <<>>
  /\ \A t \in DOMAIN task : task[t].wrote
  /\ \E i \in 1..Len(remote["events"]) : remote["events"][i] \in prs
  /\ \E i \in 1..Len(remote["events"]) : \E j \in 1..Len(remote["issues"]) :
       remote["events"][i] = remote["issues"][j] /\ remote["events"][i] \notin prs

\* C6: get with no TTL returns Fresh with exactly the fact of the last
\* insert for the issue, and NotFound exactly for an issue neither inserted
\* nor loaded from disk.
C6_InsertThenGet ==
  \A n \in DOMAIN last_insert :
    LET r == Get(internal, n, NoTtl, now)
    IN  /\ last_insert[n].tag = "inserted" => r = Fresh(last_insert[n].activity)
        /\ r = NotFound <=> last_insert[n] = Never

\* C6's case: an issue was inserted a day or more ago and get gives its
\* fact; another issue was never seen.
C6_Witness ==
  /\ \E n \in DOMAIN last_insert :
       /\ last_insert[n].tag = "inserted"
       /\ internal[n].last_checked < now
       /\ Get(internal, n, NoTtl, now) = Fresh(last_insert[n].activity)
  /\ \E n \in DOMAIN last_insert :
       last_insert[n] = Never /\ Get(internal, n, NoTtl, now) = NotFound

TtlDays == 0..MaxTime

\* C7 as stated: get returns Stale iff now - last_checked >= ttl, and
\* Fresh otherwise.
C7_StaleIffAtLeastTtl ==
  \A n \in DOMAIN internal : \A d \in TtlDays :
    LET r == Get(internal, n, Ttl(d), now)
    IN  IF now - internal[n].last_checked >= d
        THEN r = Stale(internal[n].activity)
        ELSE r = Fresh(internal[n].activity)

\* C7, amended: get returns Stale iff now - last_checked > ttl, and Fresh
\* otherwise; at now - last_checked = ttl the result is Fresh.
C7_StaleIffOlderThanTtl ==
  \A n \in DOMAIN internal : \A d \in TtlDays :
    LET r == Get(internal, n, Ttl(d), now)
    IN  IF now - internal[n].last_checked > d
        THEN r = Stale(internal[n].activity)
        ELSE r = Fresh(internal[n].activity)

\* C7's case: a line inserted exactly one TTL ago, which get reports Fresh,
\* beside an older one, which it reports Stale.
C7_Witness ==
  \E n, k \in DOMAIN internal :
    /\ last_insert[n].tag = "inserted"
    /\ now - internal[n].last_checked = 1
    /\ Get(internal, n, Ttl(1), now) = Fresh(internal[n].activity)
    /\ Get(internal, k, Ttl(1), now) = Stale(internal[k].activity)

\* The step of perform_triage_loop that takes the next issue of the page.
TakesIssue == tpc = "next_issue" /\ handled' = handled + 1

\* The loop's lookup for the issue i: cache.get(&i.number, Some(days(1)))
Lookup(i) == Get(internal, i.number, Ttl(OneDay), now)

\* C8: an issue with zero comments is added to untriaged iff it was created
\* strictly before the yardstick; either way the cache is neither read nor
\* written and no comment fetch is issued for it.
C8_ZeroComments ==
  [][(TakesIssue /\ issue'.comments = 0) =>
       /\ untriaged' = IF issue'.created_at < yard
                       THEN Append(untriaged, issue') ELSE untriaged
       /\ cache_gets' = cache_gets
       /\ internal' = internal
       /\ comment_fetches' = comment_fetches
       /\ tpc' # "fetch_comments"]_vars

\* C8's case: a zero-comment issue created before the yardstick, with a line
\* in the cache, was added to untriaged with no lookup and no fetch.
C8_Witness ==
  /\ branch = "no_comments"
  /\ issue.comments = 0
  /\ issue.created_at < yard
  /\ untriaged = <<issue>>
  /\ issue.number \in DOMAIN internal
  /\ cache_gets = 0
  /\ comment_fetches = 0

\* C9: for an issue with comments whose lookup is Fresh(LastCommented(d)),
\* the issue is added to untriaged iff d is before the yardstick, and no
\* comment fetch is issued for it.
C9_FreshLastCommented ==
  [][(/\ TakesIssue
      /\ issue'.comments # 0
      /\ Lookup(issue').kind = "Fresh"
      /\ Lookup(issue').activity.kind = "LastCommented") =>
       /\ untriaged' = IF Lookup(issue').activity.date < yard
                       THEN Append(untriaged, issue') ELSE untriaged
       /\ comment_fetches' = comment_fetches
       /\ tpc' # "fetch_comments"]_vars

\* C9's case: the first issue had a fresh LastCommented fact dated after
\* the yardstick: it was not reported and no comments were fetched.
C9_Witness ==
  /\ handled = 1
  /\ issue.comments # 0
  /\ issue.number \in DOMAIN internal
  /\ Lookup(issue) = Fresh(internal[issue.number].activity)
  /\ internal[issue.number].activity.kind = "LastCommented"
  /\ internal[issue.number].activity.date > yard
  /\ tpc \in {"next_issue", "fetch_page"}
  /\ untriaged = <<>>
  /\ cache_gets = 1
  /\ comment_fetches = 0

\* C10: for a lookup Fresh(NoActivitySince(d)): if d <= yardstick the issue
\* is added to untriaged without a comment fetch; if d > yardstick exactly
\* one comment fetch, since the yardstick, is issued for the issue.
C10_FreshNoActivitySince ==
  /\ [][(/\ TakesIssue
         /\ issue'.comments # 0
         /\ Lookup(issue').kind = "Fresh"
         /\ Lookup(issue').activity.kind = "NoActivitySince") =>
          IF Lookup(issue').activity.date <= yard
          THEN /\ untriaged' = Append(untriaged, issue')
               /\ comment_fetches' = comment_fetches
               /\ tpc' # "fetch_comments"
          ELSE /\ untriaged' = untriaged
               /\ comment_fetches' = comment_fetches
               /\ tpc' = "fetch_comments"]_vars
  /\ [][tpc = "fetch_comments" =>
          /\ comment_fetches' = comment_fetches + 1
          /\ request' = [issue_number |-> issue.number, page |-> 1,
                         per_page |-> PerPage, since |-> yard]
          /\ tpc' # "fetch_comments"]_vars

\* C10's case: the first issue had a fresh NoActivitySince fact dated after
\* the yardstick, and its one comment fetch has been issued.
C10_Witness ==
  /\ handled = 1
  /\ branch = "fresh_no_visibility"
  /\ tpc \in {"next_issue", "fetch_page"}
  /\ cache_gets = 1
  /\ comment_fetches = 1
  /\ request.issue_number = issue.number
  /\ request.since = yard

\* The request of a comment fetch for the issue i since the yardstick.
RequestFor(i) ==
  [issue_number |-> i.number, page |-> 1, per_page |-> PerPage, since |-> yard]

\* C11: a lookup Stale(LastCommented(d)) with d > yardstick is conclusive:
\* the issue is not added to untriaged, no comment fetch is issued and the
\* cache is left as is; every other Stale lookup and NotFound lead to a
\* comment fetch since the yardstick.
C11_StaleAndNotFound ==
  /\ [][(/\ TakesIssue
         /\ issue'.comments # 0
         /\ Lookup(issue').kind \in {"Stale", "NotFound"}) =>
          /\ untriaged' = untriaged
          /\ internal' = internal
          /\ comment_fetches' = comment_fetches
          /\ IF /\ Lookup(issue').kind = "Stale"
                /\ Lookup(issue').activity.kind = "LastCommented"
                /\ Lookup(issue').activity.date > yard
             THEN tpc' # "fetch_comments"
             ELSE tpc' = "fetch_comments"]_vars
  /\ [][(tpc = "fetch_comments" /\ Lookup(issue).kind \in {"Stale", "NotFound"}) =>
          /\ comment_fetches' = comment_fetches + 1
          /\ request' = RequestFor(issue)]_vars

\* C11's case: the first issue had a stale LastCommented fact dated after
\* the yardstick: it was skipped with the cache line as it was.
C11_Witness ==
  /\ handled = 1
  /\ branch = "stale_last_commented"
  /\ issue.number \in DOMAIN internal
  /\ Lookup(issue) = Stale(internal[issue.number].activity)
  /\ internal[issue.number].activity.kind = "LastCommented"
  /\ internal[issue.number].activity.date > yard
  /\ internal = FromDisk(disk)
  /\ untriaged = <<>>
  /\ comment_fetches = 0

\* The date of the latest comment of a page.
LatestCommentDate(cs) == IF cs.first > cs.last THEN cs.first ELSE cs.last

\* The comment fetch returned a page (it did not fail).
FetchReturns == tpc = "fetch_comments" /\ comment_fetches' = comment_fetches + 1
                  /\ tpc' # "loop_returned"

\* C12: when the comment fetch returns no comment, NoActivitySince(yardstick)
\* is recorded and the issue is added to untriaged; when it returns some but
\* fewer than a full page, LastCommented(date of the latest comment) is
\* recorded and the issue is not added.
C12_FetchedComments ==
  [][FetchReturns =>
       /\ comments'.len = 0 =>
            /\ internal' = Insert(internal, issue.number, NoActivitySince(yard), now)
            /\ untriaged' = Append(untriaged, issue)
       /\ (comments'.len > 0 /\ comments'.len < PerPage) =>
            /\ internal' = Insert(internal, issue.number,
                                  LastCommented(LatestCommentDate(comments')), now)
            /\ untriaged' = untriaged]_vars

\* C12's case: a fetch returned several comments of different days, fewer
\* than a full page: the day of the latest is in the cache and the issue is
\* not in untriaged.
C12_Witness ==
  /\ comment_fetches = 1
  /\ tpc \in {"next_issue", "fetch_page"}
  /\ comments.len = PerPage - 1
  /\ comments.first < comments.last
  /\ internal[issue.number] = CacheLine(LastCommented(comments.last), now)
  /\ untriaged = <<>>

\* C13: when the comment fetch returns a full page the run fails at once:
\* no fact is recorded for the issue, the issue is not classified, and the
\* loop does not go on.
C13_FullPageFailsLoudly ==
  /\ [][(FetchReturns /\ comments'.len = PerPage) =>
          /\ tpc' = "panic"
          /\ internal' = internal
          /\ untriaged' = untriaged
          /\ UNCHANGED <<handled, remaining, issue_page, loop_result, report>>]_vars
  /\ [][tpc # "panic"]_vars

\* C13's case: the fetch for an issue unknown to the cache returned a full
\* page, and the run has panicked with nothing recorded for it.
C13_Witness ==
  /\ tpc = "panic"
  /\ comments.len = PerPage
  /\ issue.number \notin DOMAIN internal
  /\ untriaged = <<>>
  /\ report = <<>>

\* A remote call of the loop fails with the given error.
RemoteFails(e) == tpc \in {"fetch_page", "fetch_comments"} /\ loop_result' = e

\* What handle_triaged prints after a loop that was rate limited.
PartialReport ==
  [kind |-> "printed", warning |-> TRUE, untriaged |-> untriaged]

\* C14: when an issue-page fetch or a comment fetch is rate limited the
\* loop stops with the cache and the untriaged list as they are, the cache
\* is flushed (the file holds every fact once the write is done), and the
\* issues collected so far are reported with the rate-limit warning.
C14_RateLimitedFlushesAndReports ==
  /\ [][RemoteFails("rate_limited") =>
          /\ tpc' = "loop_returned"
          /\ internal' = internal
          /\ untriaged' = untriaged]_vars
  /\ [][(tpc = "loop_returned" /\ loop_result = "rate_limited") =>
          /\ tpc' = "done"
          /\ flushed' \in {"written", "write_failed"}
          /\ flushed' = "written" => disk' = File(internal)
          /\ report' = PartialReport]_vars

\* C14's case: a fact was inserted for an issue, the next page fetch was
\* rate limited, and the fact is on disk and the issue in the report.
C14_Witness ==
  /\ tpc = "done"
  /\ loop_result = "rate_limited"
  /\ comment_fetches = 1
  /\ comments # <<>>
  /\ comments.len = 0
  /\ issue.number \in DOMAIN internal
  /\ internal[issue.number] = CacheLine(NoActivitySince(yard), now)
  /\ flushed = "written"
  /\ disk = File(internal)
  /\ report = [kind |-> "printed", warning |-> TRUE, untriaged |-> <<issue>>]

\* The run has inserted a fact that the file does not hold.
Accumulated == internal # FromDisk(disk)

\* C15 as stated: when the run ends with an error other than rate limiting
\* (a failed remote call, or the full page of comments), the cache is
\* flushed before the error is surfaced.
C15_OtherErrorsFlush ==
  /\ [][(tpc = "loop_returned" /\ loop_result = "other" /\ Accumulated) =>
          flushed' \in {"written", "write_failed"}]_vars
  /\ [][(tpc' = "panic" /\ Accumulated) =>
          flushed' \in {"written", "write_failed"}]_vars

\* The fetch of the page at the cursor succeeds and the page is empty.
EmptyPageFetched ==
  /\ pc = "fetch"
  /\ fetches' = fetches + 1
  /\ status' = "ok"
  /\ Page(source, page_number) = <<>>

\* C16: when a fetch of the scan returns an empty page the scan ends
\* without an error and returns exactly the items collected from the pages
\* before it.
C16_EmptyPageEndsScan ==
  /\ [][EmptyPageFetched =>
          /\ pc' = "write"
          /\ exit' = "exhausted"
          /\ items' = items
          /\ result' = NoResult]_vars
  /\ [][(pc = "write" /\ exit = "exhausted") =>
          /\ pc' = "returned"
          /\ result' = Ok(items)]_vars

\* C16's case: items were collected, a later page was empty, and the call
\* returned those items.
C16_Witness ==
  /\ pc = "returned"
  /\ exit = "exhausted"
  /\ fetches >= 2
  /\ items # <<>>
  /\ result = Ok(items)

\* The scan has computed its first page for a date days_away days ago.
Estimated(t, days_away) == pc = "fetch" /\ typ = t /\ Today - date = days_away

\* C17 as stated: for both types the first page is 0 for today, the type's
\* fixed constant for yesterday (4 for events), and otherwise days_away
\* times the type's ESTIMATED_PAGES_PER_DAY.
C17_PageForDateUniform ==
  \A t \in {"events", "issues"} : \A n \in 0..MaxDaysAway :
    Estimated(t, n) =>
      /\ n = 0 => start = 0
      /\ (n = 1 /\ t = "events") => start = 4
      /\ n > 1 => start = n * EstimatedPagesPerDay(t)

\* C17, amended: for events the first page is 0 for today, 4 for yesterday
\* and otherwise days_away * 4; for issues it is days_away / 6 rounded down
\* for every date.
C17_PageForDatePerType ==
  \A n \in 0..MaxDaysAway :
    /\ Estimated("events", n) =>
         start = IF n = 0 THEN 0 ELSE IF n = 1 THEN 4 ELSE n * 4
    /\ Estimated("issues", n) =>
         /\ start * 6 <= n
         /\ n < (start + 1) * 6

\* C17's case: the first page for issues of twelve days ago is 2, where
\* days_away times the constant would be 12.
C17_Witness ==
  /\ Estimated("issues", 12)
  /\ EstimatedPagesPerDay("issues") = 1
  /\ start = 2

\* C18: over the calls for one key, a parseable snapshot is never written
\* again or changed; write_cache runs only after read_cache reported a
\* miss; and a call that finds the snapshot returns its items without
\* fetching a page.
C18_SnapshotWrittenOnce ==
  /\ [][storage.kind = "valid" => storage' = storage]_vars
  /\ [][pc' = "write" => (fs_read' \in {"not_found", "unparseable"}
                            /\ storage'.kind = "missing")]_vars
  /\ [][(pc = "read" /\ storage.kind = "valid") =>
          /\ pc' = "returned"
          /\ result' = Ok(storage.items)
          /\ fetches' = 0]_vars

\* C18's case: a later call found the snapshot an earlier call wrote and
\* returned its items with no page fetched.
C18_Witness ==
  /\ pc = "returned"
  /\ fs_read = "parsed"
  /\ fetches = 0
  /\ storage.kind = "valid"
  /\ storage.items # <<>>
  /\ result = Ok(storage.items)

\* C19 as stated: a probe whose page holds no item of the date raises
\* pages_per_day by exactly 1, except at the largest value, where the
\* estimate stays; it never decreases.
C19_EstimateSaturates ==
  [][pc = "miss" =>
       /\ pages_per_day' = IF pages_per_day = UMAX THEN UMAX ELSE pages_per_day + 1
       /\ pages_per_day' >= pages_per_day]_vars

\* The page at the cursor, when the fetch returns one.
ProbedPage == Page(source, page_number)

\* The step retreats the cursor: the page matched at its very start on the
\* first fetch, or no item matched and the last item is not after the date.
Retreats ==
  /\ pc = "fetch"
  /\ fetches' = fetches + 1
  /\ status' = "ok"
  /\ ProbedPage # <<>>
  /\ IF Matches(ProbedPage, date) # {}
     THEN MatchedMove(Range(ProbedPage, date), Len(ProbedPage), fetch_index) = "back"
     ELSE ItemDate(ProbedPage[Len(ProbedPage)]) <= date

\* C20 as stated: a step that moves the cursor toward now never panics and
\* never wraps: the cursor goes back by the computed number of pages, or by
\* one page when that number exceeds it, and stays a page index from 0.
C20_RetreatStaysValid ==
  [][Retreats =>
       /\ pc' # "panic"
       /\ page_number' >= 0
       /\ page_number' <= page_number]_vars

\* The fetch of the page at the cursor succeeds and the page holds items
\* of the date.
MatchFetched ==
  /\ pc = "fetch"
  /\ fetches' = fetches + 1
  /\ status' = "ok"
  /\ ProbedPage # <<>>
  /\ Matches(ProbedPage, date) # {}

\* The matched run of the probed page: the indices of its first and of its
\* last item of the date.
Run == Range(ProbedPage, date)

\* The run touches the last index of the page and not index 0.
TouchesFarEndOnly == Run.start # 0 /\ Run.end = Len(ProbedPage) - 1

\* The page's relevant items are appended to the items collected.
Collects == items' = items \o RelevantOf(ProbedPage, date)

\* C21 as stated: when the matched run touches only the last index of the
\* page, the scan stops after collecting the page's matching items.
C21_FarEndStops ==
  [][(MatchFetched /\ TouchesFarEndOnly) => (Collects /\ pc' = "write")]_vars

\* C21, amended: when the matched run touches only the last index of the
\* page, the page's matching items are collected and the scan goes on with
\* the next page further from now; it stops when the run does not touch
\* the last index and either does not touch index 0 or the page is not the
\* first fetched.
C21_FarEndContinues ==
  /\ [][(MatchFetched /\ TouchesFarEndOnly) =>
          /\ Collects
          /\ pc' = "fetch"
          /\ page_number' = page_number + 1
          /\ fetch_index' = fetch_index + 1]_vars
  /\ [][(MatchFetched /\ Run.end # Len(ProbedPage) - 1
           /\ (Run.start # 0 \/ fetch_index # 0)) =>
          /\ Collects
          /\ pc' = "write"
          /\ page_number' = page_number]_vars

\* C21's case: the first page fetched held items of the date from inside
\* the page to its last index, and the scan is about to fetch the next page.
C21_Witness ==
  /\ pc = "fetch"
  /\ fetches = 1
  /\ fetch_index = 1
  /\ page_number >= 1
  /\ Range(Page(source, page_number - 1), date).start # 0
  /\ Range(Page(source, page_number - 1), date).end = PageSize - 1
  /\ items = RelevantOf(Page(source, page_number - 1), date)
  /\ items # <<>>

\* C22 as stated: after a page with items of the date the cursor steps one
\* page toward now only when the run touches index 0 and the page is the
\* first one fetched by the invocation.
C22_BackOnlyOnFirstFetch ==
  [][(MatchFetched /\ page_number' = page_number - 1) =>
       (Run.start = 0 /\ fetches = 0)]_vars

\* No item of the remote source appears twice in the sequence.
NoRepeat(its) == \A i, j \in 1..Len(its) : its[i].id = its[j].id => i = j

\* C23 as stated: in every state of the scan, and in its result, no item of
\* the remote source appears more than once.
C23_NoItemTwice == NoRepeat(items) /\ NoRepeat(result.items)

\* What the fetch of a type yields for the date, and what a snapshot of the
\* type holds.
ListOf(t) == Fetched(remote[t], prs)

\* C24: the two futures of for_date share no state: a step of one leaves
\* the other and the other's snapshot file alone, so under every
\* interleaving each future yields, and each snapshot holds, the list of
\* its own type, and the merged list is the one built from the two, as when
\* the futures run one after the other.
C24_FuturesIndependent ==
  /\ [][\A t, u \in CacheTypes :
          (t # u /\ task'[t] # task[t]) =>
             /\ task'[u] = task[u]
             /\ store'[CachePath(u)] = store[CachePath(u)]]_vars
  /\ [](\A t \in CacheTypes :
          /\ task[t].pc \in {"write", "ok"} => task[t].value = ListOf(t)
          /\ store[CachePath(t)].kind = "valid" => store[CachePath(t)].items = ListOf(t))
  /\ [](day.kind = "ok" => day.items = ForDateItems(ListOf("events"), ListOf("issues")))

\* C24's case: both futures fetched and wrote, the two lists differ, and
\* the merge is done.
C24_Witness ==
  /\ day.kind = "ok"
  /\ \A t \in CacheTypes : task[t].wrote /\ store[CachePath(t)] = Valid(ListOf(t))
  /\ ListOf("events") # <<>>
  /\ ListOf("issues") # <<>>
  /\ ListOf("events") # ListOf("issues")

\* C25: during the triage loop the cache map changes only in the step in
\* which the comments of an issue were fetched with fewer than a full page,
\* and then only in the entry of that issue: every other entry stays as it
\* was, last_checked included, no entry is removed, and an issue answered
\* from the cache is not refreshed.
C25_CacheFrame ==
  /\ [][internal' # internal =>
          /\ FetchReturns
          /\ comments'.len < PerPage
          /\ DOMAIN internal' = DOMAIN internal \cup {issue.number}
          /\ \A n \in DOMAIN internal : n # issue.number => internal'[n] = internal[n]]_vars
  /\ [][TakesIssue => internal' = internal]_vars

\* C25's case: a fact was inserted for one issue while the line of another
\* issue, loaded from the file and checked earlier, is as it was.
C25_Witness ==
  /\ tpc \in {"next_issue", "fetch_page"}
  /\ comment_fetches = 1
  /\ issue.number \in DOMAIN internal
  /\ internal[issue.number].last_checked = now
  /\ \E n \in DOMAIN internal :
       /\ n # issue.number
       /\ n \in DOMAIN FromDisk(disk)
       /\ internal[n] = FromDisk(disk)[n]
       /\ internal[n].last_checked < now

\* C26 as stated: a scan whose remote calls do not fail ends as Done or
\* Exhausted and returns.  (A call that failed has ended too, and a scan cut
\* off after MaxFetches fetches is not followed further.)
C26_ScanTerminates ==
  <>(pc \in {"returned", "failed"} \/ fetches = MaxFetches)

====
